---- MODULE Spec2Model ----
(***************************************************************************)
(* Navigation core of maze.py: PathFinder (grid rasterisation, A* shortest *)
(* route, double-sweep longest route), MoveRecorder and the autopilot part *)
(* of QuantumMazeGame (route requests, manual cancel, per-frame follow).   *)
(***************************************************************************)
EXTENDS Integers, Sequences, FiniteSets, TLC

(***************************************************************************)
(* Program constants                                                       *)
(***************************************************************************)
CELL_SIZE == 40

\* gscore.get(n, 1e9): the cost of a cell that has no recorded cost yet
INF == 1000000000

\* None, as the parent of the start cell and the end of a predecessor chain
NoCell == <<-1, -1>>

(***************************************************************************)
(* Bounds of the model                                                     *)
(***************************************************************************)
MaxWalls == 2

\* max_points of the MoveRecorder the game is run with
MaxPoints == 3

\* the grids (columns, rows) the planner is run on
GridShapes == {<<1, 1>>, <<2, 1>>, <<1, 2>>, <<2, 2>>, <<3, 2>>, <<3, 3>>, <<4, 3>>, <<5, 2>>}

(***************************************************************************)
(* Small helpers                                                           *)
(***************************************************************************)
Max2(a, b) == IF a >= b THEN a ELSE b
Min2(a, b) == IF a <= b THEN a ELSE b
Abs(a) == IF a < 0 THEN -a ELSE a

RECURSIVE Reverse(_)
Reverse(s) == IF s = <<>> THEN <<>> ELSE Append(Reverse(Tail(s)), Head(s))

\* pygame.Rect(x, y, w, h) with its derived edges
Rect(x, y, w, h) == [left |-> x, top |-> y, right |-> x + w, bottom |-> y + h]

(***************************************************************************)
(* PathFinder                                                              *)
(***************************************************************************)
\* the cells of a wall with its right and bottom edges taken as inside it
WallCells_inclusive(cols, rows, w) ==
    LET x0 == Max2(0, w.left \div CELL_SIZE)
        y0 == Max2(0, w.top \div CELL_SIZE)
        x1 == Min2(cols - 1, w.right \div CELL_SIZE)
        y1 == Min2(rows - 1, w.bottom \div CELL_SIZE)
    IN  {<<cx, cy>> : cx \in x0..x1, cy \in y0..y1}

\* for cx in range(x0, x1+1): for cy in range(y0, y1+1): blocked.add((cx, cy))
WallCells(cols, rows, w) ==
    LET x0 == Max2(0, w.left \div CELL_SIZE)
        y0 == Max2(0, w.top \div CELL_SIZE)
        x1 == Min2(cols - 1, (w.right - 1) \div CELL_SIZE)
        y1 == Min2(rows - 1, (w.bottom - 1) \div CELL_SIZE)
    IN  {<<cx, cy>> : cx \in x0..x1, cy \in y0..y1}

\* the grid with a last column and row for what is left over of the world
PathFinder_ceil(level) ==
    LET cols == (level.world_w + CELL_SIZE - 1) \div CELL_SIZE
        rows == (level.world_h + CELL_SIZE - 1) \div CELL_SIZE
    IN  [cols |-> cols, rows |-> rows,
         blocked |-> UNION {WallCells(cols, rows, w) : w \in level.walls}]

\* PathFinder.__init__: the grid of a level [world_w, world_h, walls, ...]
PathFinder(level) ==
    LET cols == level.world_w \div CELL_SIZE
        rows == level.world_h \div CELL_SIZE
    IN  [cols |-> cols, rows |-> rows,
         blocked |-> UNION {WallCells(cols, rows, w) : w \in level.walls}]

pt_to_cell(p, pt) ==
    <<Max2(0, Min2(p.cols - 1, pt[1] \div CELL_SIZE)),
      Max2(0, Min2(p.rows - 1, pt[2] \div CELL_SIZE))>>

cell_to_pt(c) ==
    <<c[1] * CELL_SIZE + CELL_SIZE \div 2, c[2] * CELL_SIZE + CELL_SIZE \div 2>>

\* the four candidates in generation order: +col, -col, +row, -row
NeighborOrder(c) ==
    <<(<<c[1] + 1, c[2]>>), (<<c[1] - 1, c[2]>>), (<<c[1], c[2] + 1>>), (<<c[1], c[2] - 1>>)>>

InGrid(p, c) == 0 <= c[1] /\ c[1] < p.cols /\ 0 <= c[2] /\ c[2] < p.rows

\* PathFinder._neighbors: the generator's yields, as a sequence
neighbors(p, c) ==
    SelectSeq(NeighborOrder(c), LAMBDA n : InGrid(p, n) /\ n \notin p.blocked)

\* h(a, b): Manhattan distance between cells
h(a, b) == Abs(a[1] - b[1]) + Abs(a[2] - b[2])

\* Python's ordering of (cx, cy) tuples
CellLess(a, b) == a[1] < b[1] \/ (a[1] = b[1] /\ a[2] < b[2])

\* Python's ordering of the heap entries (f, d, cell, parent)
EntryLess(a, b) ==
    \/ a[1] < b[1]
    \/ a[1] = b[1] /\ a[2] < b[2]
    \/ a[1] = b[1] /\ a[2] = b[2] /\ CellLess(a[3], b[3])
    \/ a[1] = b[1] /\ a[2] = b[2] /\ a[3] = b[3] /\ CellLess(a[4], b[4])

\* the least entry with a tie on f and d settled by the row, then the column
HeapMin_by_row(pq) ==
    CHOOSE e \in pq : \A o \in pq :
        \/ o = e
        \/ e[1] < o[1]
        \/ e[1] = o[1] /\ e[2] < o[2]
        \/ e[1] = o[1] /\ e[2] = o[2] /\ CellLess(<<e[3][2], e[3][1]>>, <<o[3][2], o[3][1]>>)

\* heapq.heappop: the least entry of the queue
HeapMin(pq) == CHOOSE e \in pq : \A o \in pq : o = e \/ EntryLess(e, o)

\* dict.get(n, 1e9)
GetScore(gscore, n) == IF n \in DOMAIN gscore THEN gscore[n] ELSE INF

\* mutant of Relax: the push is keyed by the heuristic alone (nd left out of f)
RECURSIVE Relax_greedy(_, _, _, _, _, _)
Relax_greedy(st, g, ns, i, d, cur) ==
    IF i > Len(ns) THEN st
    ELSE LET n == ns[i]
             nd == d + 1
         IN  IF nd < GetScore(st.gscore, n)
             THEN Relax_greedy([st EXCEPT
                                   !.gscore = (n :> nd) @@ st.gscore,
                                   !.pq = st.pq \cup {<<h(n, g), nd, n, cur>>}],
                               g, ns, i + 1, d, cur)
             ELSE Relax_greedy(st, g, ns, i + 1, d, cur)

\* mutant of Relax: every neighbour is pushed, whatever cost is recorded for it
RECURSIVE Relax_always(_, _, _, _, _, _)
Relax_always(st, g, ns, i, d, cur) ==
    IF i > Len(ns) THEN st
    ELSE Relax_always([st EXCEPT
                          !.gscore = (ns[i] :> d + 1) @@ st.gscore,
                          !.pq = st.pq \cup {<<d + 1 + h(ns[i], g), d + 1, ns[i], cur>>}],
                      g, ns, i + 1, d, cur)

\* the inner "for n in self._neighbors(cur)" of shortest, from the i-th neighbour on
RECURSIVE Relax(_, _, _, _, _, _)
Relax(st, g, ns, i, d, cur) ==
    IF i > Len(ns) THEN st
    ELSE LET n == ns[i]
             nd == d + 1
         IN  IF nd < GetScore(st.gscore, n)
             THEN Relax([st EXCEPT
                            !.gscore = (n :> nd) @@ st.gscore,
                            !.pq = st.pq \cup {<<nd + h(n, g), nd, n, cur>>}],
                        g, ns, i + 1, d, cur)
             ELSE Relax(st, g, ns, i + 1, d, cur)

\* shortest, up to the loop: the search state after the first push
AStarInit(s, g) ==
    [pq |-> {<<h(s, g), 0, s, NoCell>>},
     came |-> <<>>,
     gscore |-> (s :> 0),
     brk |-> FALSE]

\* one iteration with no break at the goal: its neighbours are relaxed too
AStarStep_no_break(p, g, st) ==
    LET e == HeapMin(st.pq)
        came1 == IF e[3] \in DOMAIN st.came THEN st.came ELSE (e[3] :> e[4]) @@ st.came
    IN  Relax([st EXCEPT !.pq = st.pq \ {e}, !.came = came1], g, neighbors(p, e[3]), 1, e[2], e[3])

\* one iteration of "while pq" in shortest
AStarStep(p, g, st) ==
    LET e == HeapMin(st.pq)
        d == e[2]
        cur == e[3]
        par == e[4]
        came1 == IF cur \in DOMAIN st.came THEN st.came ELSE (cur :> par) @@ st.came
        st1 == [st EXCEPT !.pq = st.pq \ {e}, !.came = came1]
    IN  IF cur = g THEN [st1 EXCEPT !.brk = TRUE]
        ELSE Relax(st1, g, neighbors(p, cur), 1, d, cur)

\* "while c is not None: path.append(c); c = came[c]"
RECURSIVE Chain(_, _)
Chain(came, c) == IF c = NoCell THEN <<>> ELSE <<c>> \o Chain(came, came[c])

ToPoints(path) == [i \in 1..Len(path) |-> cell_to_pt(path[i])]

\* mutant of AStarResult: "not found" decided by the frontier being empty
AStarResult_frontier(g, st) ==
    IF st.pq = {} THEN <<>>
    ELSE ToPoints(Reverse(Chain(st.came, g)))

\* mutant of AStarResult: path.reverse() left out
AStarResult_unreversed(g, st) ==
    IF g \notin DOMAIN st.came THEN <<>>
    ELSE ToPoints(Chain(st.came, g))

\* shortest, after the loop
AStarResult(g, st) ==
    IF g \notin DOMAIN st.came THEN <<>>
    ELSE ToPoints(Reverse(Chain(st.came, g)))

RECURSIVE AStarRun(_, _, _)
AStarRun(p, g, st) ==
    IF st.pq = {} \/ st.brk THEN st ELSE AStarRun(p, g, AStarStep(p, g, st))

\* PathFinder.shortest as a whole
shortest(p, start_px, goal_px) ==
    LET s == pt_to_cell(p, start_px)
        g == pt_to_cell(p, goal_px)
    IN  IF s \in p.blocked \/ g \in p.blocked THEN <<>>
        ELSE AStarResult(g, AStarRun(p, g, AStarInit(s, g)))

\* bfs(start) of longest_approx, before its loop; order lists dist's keys in
\* insertion order (Python dicts iterate in insertion order)
BfsInit(start) ==
    [q |-> <<start>>, order |-> <<start>>, dist |-> (start :> 0), par |-> (start :> NoCell)]

\* the inner "for n in self._neighbors(c)" of bfs, from the i-th neighbour on
RECURSIVE Visit(_, _, _, _)
Visit(st, ns, i, c) ==
    IF i > Len(ns) THEN st
    ELSE LET n == ns[i]
         IN  IF n \notin DOMAIN st.dist
             THEN Visit([st EXCEPT
                            !.dist = (n :> st.dist[c] + 1) @@ st.dist,
                            !.par = (n :> c) @@ st.par,
                            !.order = Append(st.order, n),
                            !.q = Append(st.q, n)],
                        ns, i + 1, c)
             ELSE Visit(st, ns, i + 1, c)

\* one iteration of "while q" in bfs
BfsStep(p, st) ==
    LET c == Head(st.q)
    IN  Visit([st EXCEPT !.q = Tail(st.q)], neighbors(p, c), 1, c)

\* mutant of far: max(dist) without the key function, the greatest cell tuple
far_by_cell(st) ==
    CHOOSE c \in DOMAIN st.dist : \A o \in DOMAIN st.dist : o = c \/ CellLess(o, c)

\* max by distance with the last key of greatest value taken on a tie
far_last(st) ==
    LET best == CHOOSE i \in 1..Len(st.order) :
                    /\ \A j \in 1..Len(st.order) : st.dist[st.order[j]] <= st.dist[st.order[i]]
                    /\ \A j \in (i + 1)..Len(st.order) : st.dist[st.order[j]] < st.dist[st.order[i]]
    IN  st.order[best]

\* max(dist, key=lambda k: dist[k]): the first key, in iteration order, of greatest value
far(st) ==
    LET best == CHOOSE i \in 1..Len(st.order) :
                    /\ \A j \in 1..Len(st.order) : st.dist[st.order[j]] <= st.dist[st.order[i]]
                    /\ \A j \in 1..(i - 1) : st.dist[st.order[j]] < st.dist[st.order[i]]
    IN  st.order[best]

RECURSIVE BfsRun(_, _)
BfsRun(p, st) == IF st.q = <<>> THEN st ELSE BfsRun(p, BfsStep(p, st))

\* the scan made column by column, each column from its top
RECURSIVE ScanFree_by_column(_, _, _)
ScanFree_by_column(p, k, s) ==
    IF k >= p.rows * p.cols THEN s
    ELSE LET c == <<k \div p.rows, k % p.rows>>
         IN  IF c \notin p.blocked THEN c ELSE ScanFree_by_column(p, k + 1, s)

\* the row-major scan for a free cell, from the k-th cell on; s when there is none
RECURSIVE ScanFree(_, _, _)
ScanFree(p, k, s) ==
    IF k >= p.rows * p.cols THEN s
    ELSE LET c == <<k % p.cols, k \div p.cols>>
         IN  IF c \notin p.blocked THEN c ELSE ScanFree(p, k + 1, s)

\* longest_approx, up to the first sweep: the (possibly substituted) start cell
LongestStart(p, start_px) ==
    LET s == pt_to_cell(p, start_px)
    IN  IF s \in p.blocked THEN ScanFree(p, 0, s) ELSE s

\* longest_approx, after the second sweep
LongestResult(st) == ToPoints(Reverse(Chain(st.par, far(st))))

\* PathFinder.longest_approx as a whole
longest_approx(p, start_px) ==
    LET A == far(BfsRun(p, BfsInit(LongestStart(p, start_px))))
    IN  LongestResult(BfsRun(p, BfsInit(A)))

(***************************************************************************)
(* State                                                                   *)
(***************************************************************************)
VARIABLES
    level,      \* the Level a PathFinder is built for: world_w, world_h, walls
    pf,         \* the PathFinder: cols, rows, blocked
    call,       \* the planner call in progress: op, start_px, goal_px
    pc,         \* where that call stands: "enter", "astar", "sweep1", "sweep2", "done"
    astar,      \* shortest's locals: pq, came, gscore (brk: the loop was left by break)
    pushed,         \* the entries given to heappush so far, in the order of the calls
    bfs,        \* bfs's locals in longest_approx: q, dist (with its key order), par
    route       \* the list the call returned

pathVars == <<level, pf, call, pc, astar, pushed, bfs, route>>

VARIABLES
    state,          \* QuantumMazeGame.state: a GameState name
    current_index,  \* index of the level being played
    player,         \* the Player: x, y (NoPlayer before the first start_level)
    moves,          \* the MoveRecorder: points, last
    dropdown_open,  \* auto_dropdown.open
    auto_mode,      \* a route is being followed
    reverse_mode,   \* the followed route is a retrace
    auto_path,      \* the active route, a list of waypoints
    auto_index,     \* index (from 0) of the waypoint being approached
    auto_type,      \* "short", "long", "reverse" or "None"
    frame,          \* where the main loop stands: "events", "cancel", "update"
    keys,           \* the keys pygame.key.get_pressed() reports this frame
    steer,          \* (dx, dy) of the last update, in thousandths
    branch,         \* which way the last update went
    moved,          \* whether player.move took the step in the last update
    req,            \* what the last step of handle_events asked of the autopilot
    arrivals,       \* arrivals counted since the active route was installed
    origin,         \* the call auto_path came from: "short", "long", "reverse" or "None"
    strayed         \* the player's centre has been sample_dist or more away from where
                    \* start_level put it

VARIABLES
    recorder,       \* a MoveRecorder on its own: points, last
    cap,            \* the max_points it was built with
    accepted,       \* every sample it has taken in since it was built or cleared
    calls,          \* calls made on it so far
    sample_dist,    \* the sample_dist it was built with
    heading,        \* the step from one position fed to it to the next, when on a line
    bt              \* the last backtrack_from call: the points it found stored, cur,
                    \* include_current, result

recVars == <<recorder, cap, sample_dist, heading, accepted, calls, bt>>

sessionVars == <<auto_mode, reverse_mode, auto_path, auto_index, auto_type>>
gameVars == <<state, current_index, player, moves, dropdown_open, sessionVars,
              frame, keys, steer, branch, moved, req, arrivals, origin, strayed>>
vars == <<pathVars, gameVars, recVars>>

(***************************************************************************)
(* Inputs of the planner runs                                              *)
(***************************************************************************)
\* one CELL_SIZE block per grid cell, as Level.generate lays walls
BlockAt(cx, cy) == Rect(cx * CELL_SIZE, cy * CELL_SIZE, CELL_SIZE, CELL_SIZE)

BlockPool(cols, rows) == {BlockAt(cx, cy) : cx \in 0..(cols - 1), cy \in 0..(rows - 1)}

SmallLevels ==
    UNION {{[world_w |-> sh[1] * CELL_SIZE, world_h |-> sh[2] * CELL_SIZE, walls |-> W] :
               W \in {V \in SUBSET BlockPool(sh[1], sh[2]) :
                         Cardinality(V) <= MaxWalls \/ Cardinality(V) = sh[1] * sh[2]}} :
           sh \in GridShapes}

\* the 10 x 10 grid of the route scenarios: empty, and with row 5 blocked but for column 3
OpenField == [world_w |-> 10 * CELL_SIZE, world_h |-> 10 * CELL_SIZE, walls |-> {}]
GateField ==
    [OpenField EXCEPT !.walls = {BlockAt(cx, 5) : cx \in (0..9) \ {3}}]

\* a point inside every cell (off its centre), and two points outside the world
PointsOf(lv, off) ==
    {<<cx * CELL_SIZE + off, cy * CELL_SIZE + off>> :
        cx \in 0..((lv.world_w \div CELL_SIZE) - 1),
        cy \in 0..((lv.world_h \div CELL_SIZE) - 1)}
    \cup {<<0 - off, 0 - off>>, <<lv.world_w + off, lv.world_h + off>>}

NoCall == [op |-> "none", start_px |-> <<0, 0>>, goal_px |-> <<0, 0>>]
NoAStar == [pq |-> {}, came |-> <<>>, gscore |-> <<>>, brk |-> FALSE]
NoBfs == [q |-> <<>>, order |-> <<>>, dist |-> <<>>, par |-> <<>>]

\* QuantumMazeGame.__init__: the menu, no player yet, the autopilot idle
NoPlayer == [x |-> -1, y |-> -1]
NoMoves == [points |-> <<>>, last |-> <<>>]
NoReq == [kind |-> "none", path |-> <<>>, before |-> <<>>]

\* no MoveRecorder is exercised on its own
NoBack == [history |-> <<>>, cur |-> <<>>, include_current |-> FALSE, result |-> <<>>]
RecIdle ==
    /\ recorder = NoMoves
    /\ cap = 0
    /\ sample_dist = 0
    /\ heading = <<0, 0>>
    /\ accepted = <<>>
    /\ calls = 0
    /\ bt = NoBack

GameIdle ==
    /\ state = "MENU"
    /\ current_index = 0
    /\ player = NoPlayer
    /\ moves = NoMoves
    /\ dropdown_open = FALSE
    /\ auto_mode = FALSE
    /\ reverse_mode = FALSE
    /\ auto_path = <<>>
    /\ auto_index = 0
    /\ auto_type = "None"
    /\ frame = "events"
    /\ keys = {}
    /\ steer = <<0, 0>>
    /\ branch = "none"
    /\ moved = FALSE
    /\ req = NoReq
    /\ arrivals = 0
    /\ origin = "None"
    /\ strayed = FALSE

Constructed == RecIdle /\ GameIdle

InitPath ==
    /\ Constructed
    /\ \/ /\ level \in SmallLevels
          /\ \/ \E s \in PointsOf(level, 24), g \in PointsOf(level, 4) :
                    call = [op |-> "shortest", start_px |-> s, goal_px |-> g]
             \/ \E s \in PointsOf(level, 24) :
                    call = [op |-> "longest", start_px |-> s, goal_px |-> s]
       \/ /\ level \in {OpenField, GateField}
          /\ call = [op |-> "shortest", start_px |-> <<24, 24>>,
                     goal_px |-> <<9 * CELL_SIZE + 4, 9 * CELL_SIZE + 4>>]
    /\ pf = PathFinder(level)
    /\ pc = "enter"
    /\ astar = NoAStar
    /\ pushed = <<>>
    /\ bfs = NoBfs
    /\ route = <<>>

(***************************************************************************)
(* PathFinder.shortest, step by step                                       *)
(***************************************************************************)
StartCell == pt_to_cell(pf, call.start_px)
GoalCell == pt_to_cell(pf, call.goal_px)

\* the heappush calls of one iteration: the new entries, in the order _neighbors
\* yields their cells
Pushes(p, cur, before, after) ==
    LET ns == neighbors(p, cur)
        new(i) == {e \in after \ before : e[3] = ns[i]}
    IN  [k \in 1..Cardinality(after \ before) |->
            CHOOSE e \in after \ before :
                \E i \in 1..Len(ns) :
                    /\ e \in new(i)
                    /\ Cardinality({j \in 1..i : new(j) # {}}) = k]

\* lines 605-609: the early return, or the first push
ShortestEnter ==
    /\ pc = "enter" /\ call.op = "shortest"
    /\ IF StartCell \in pf.blocked \/ GoalCell \in pf.blocked
       THEN /\ route' = <<>>
            /\ pc' = "done"
            /\ astar' = astar
            /\ pushed' = pushed
       ELSE /\ astar' = AStarInit(StartCell, GoalCell)
            /\ pushed' = <<(<<h(StartCell, GoalCell), 0, StartCell, NoCell>>)>>
            /\ pc' = "astar"
            /\ route' = route
    /\ UNCHANGED <<level, pf, call, bfs>>
    /\ UNCHANGED <<gameVars, recVars>>

\* lines 610-618: one pop
ShortestPop ==
    /\ pc = "astar" /\ astar.pq # {} /\ ~astar.brk
    /\ astar' = AStarStep(pf, GoalCell, astar)
    /\ pushed' = pushed \o Pushes(pf, HeapMin(astar.pq)[3], astar.pq, astar'.pq)
    /\ UNCHANGED <<level, pf, call, pc, bfs, route>>
    /\ UNCHANGED <<gameVars, recVars>>

\* lines 619-625: the loop is over, the route is built
ShortestReturn ==
    /\ pc = "astar" /\ (astar.pq = {} \/ astar.brk)
    /\ route' = AStarResult(GoalCell, astar)
    /\ pc' = "done"
    /\ UNCHANGED <<level, pf, call, astar, pushed, bfs>>
    /\ UNCHANGED <<gameVars, recVars>>

(***************************************************************************)
(* PathFinder.longest_approx, step by step                                 *)
(***************************************************************************)
\* lines 639-647: the start cell, substituted when blocked, opens the first sweep
LongestEnter ==
    /\ pc = "enter" /\ call.op = "longest"
    /\ bfs' = BfsInit(LongestStart(pf, call.start_px))
    /\ pc' = "sweep1"
    /\ UNCHANGED <<level, pf, call, astar, pushed, route>>
    /\ UNCHANGED <<gameVars, recVars>>

\* lines 631-635: one popleft of either sweep
BfsPop ==
    /\ pc \in {"sweep1", "sweep2"} /\ bfs.q # <<>>
    /\ bfs' = BfsStep(pf, bfs)
    /\ UNCHANGED <<level, pf, call, pc, astar, pushed, route>>
    /\ UNCHANGED <<gameVars, recVars>>

\* lines 636-637, 648: the first sweep returns A, the second starts from it
SweepAgain ==
    /\ pc = "sweep1" /\ bfs.q = <<>>
    /\ bfs' = BfsInit(far(bfs))
    /\ pc' = "sweep2"
    /\ UNCHANGED <<level, pf, call, astar, pushed, route>>
    /\ UNCHANGED <<gameVars, recVars>>

\* lines 636-637, 649-653: the second sweep returns B, the route is built
LongestReturn ==
    /\ pc = "sweep2" /\ bfs.q = <<>>
    /\ route' = LongestResult(bfs)
    /\ pc' = "done"
    /\ UNCHANGED <<level, pf, call, astar, pushed, bfs>>
    /\ UNCHANGED <<gameVars, recVars>>

NextPath ==
    \/ ShortestEnter
    \/ ShortestPop
    \/ ShortestReturn
    \/ LongestEnter
    \/ BfsPop
    \/ SweepAgain
    \/ LongestReturn

SpecPath == InitPath /\ [][NextPath]_vars

(***************************************************************************)
(* Reference notions the claims are stated with (plain graph search on the *)
(* free cells, independent of the planner's own bookkeeping)               *)
(***************************************************************************)
GridCells == {<<cx, cy>> : cx \in 0..(pf.cols - 1), cy \in 0..(pf.rows - 1)}
FreeCells == GridCells \ pf.blocked

Cardinal(a, b) ==
    \/ a[1] = b[1] /\ (a[2] - b[2] = 1 \/ b[2] - a[2] = 1)
    \/ a[2] = b[2] /\ (a[1] - b[1] = 1 \/ b[1] - a[1] = 1)

\* breadth-first layers over the cells of free: the layer in which g is met, -1 if never
RECURSIVE Layers(_, _, _, _, _)
Layers(free, frontier, seen, g, k) ==
    IF g \in frontier THEN k
    ELSE IF frontier = {} THEN -1
    ELSE LET nxt == {c \in free \ seen : \E b \in frontier : Cardinal(b, c)}
         IN  Layers(free, nxt, seen \cup nxt, g, k + 1)

\* plain breadth-first distance between two cells over the cells of free
StepsIn(free, a, b) == IF a \in free THEN Layers(free, {a}, {a}, b, 0) ELSE -1
Steps(a, b) == StepsIn(FreeCells, a, b)

\* the largest breadth-first distance from a to a cell reachable from it
Eccentricity(a) ==
    LET ds == {Steps(a, c) : c \in FreeCells}
    IN  CHOOSE d \in ds : \A e \in ds : e <= d

Centre(c) == <<CELL_SIZE * c[1] + 20, CELL_SIZE * c[2] + 20>>
CellOfPoint(pt) == <<pt[1] \div CELL_SIZE, pt[2] \div CELL_SIZE>>
OnRoute(c) == \E i \in 1..Len(route) : route[i] = Centre(c)

ShortestDone == pc = "done" /\ call.op = "shortest"
LongestDone == pc = "done" /\ call.op = "longest"

(***************************************************************************)
(* Claims on PathFinder.shortest                                           *)
(***************************************************************************)
\* C1: when start and goal cell are free and connected, the returned route has
\* exactly (breadth-first distance + 1) waypoints; on the empty 10 x 10 grid,
\* corner to corner, that is 19 waypoints.
C1_ShortestIsOptimal ==
    (ShortestDone /\ Steps(StartCell, GoalCell) >= 0)
        => /\ Len(route) - 1 = Steps(StartCell, GoalCell)
           /\ (level = OpenField => Len(route) = 19)

C1_Witness ==
    /\ ShortestDone
    /\ level = OpenField
    /\ StartCell = <<0, 0>> /\ GoalCell = <<9, 9>>
    /\ Len(route) = 19

\* C2: the route is empty exactly when the start cell is blocked, the goal cell is
\* blocked, or no path of free cells joins them; a start cell equal to the goal
\* cell gives a non-empty route.
C2_EmptyIffUnreachable ==
    ShortestDone =>
        /\ (route = <<>>) <=> (\/ StartCell \in pf.blocked
                              \/ GoalCell \in pf.blocked
                              \/ Steps(StartCell, GoalCell) < 0)
        /\ (StartCell = GoalCell /\ StartCell \notin pf.blocked => route # <<>>)

\* both cells free, yet walled off from each other: the frontier ran out
C2_Witness ==
    /\ ShortestDone
    /\ StartCell \notin pf.blocked /\ GoalCell \notin pf.blocked
    /\ Steps(StartCell, GoalCell) < 0
    /\ astar.pq = {} /\ ~astar.brk
    /\ route = <<>>

\* C3: a non-empty route starts at the centre of the start cell, ends at the centre
\* of the goal cell, moves between cardinally adjacent cells, stays off blocked
\* cells, and passes through every free cell whose removal would cut start from
\* goal (the single opening of a wall, cell (3,5) in the gate scenario).
C3_RouteIsWalk ==
    (ShortestDone /\ route # <<>>) =>
        /\ route[1] = Centre(StartCell)
        /\ route[Len(route)] = Centre(GoalCell)
        /\ \A i \in 1..(Len(route) - 1) :
               Cardinal(CellOfPoint(route[i]), CellOfPoint(route[i + 1]))
        /\ \A i \in 1..Len(route) :
               /\ route[i] = Centre(CellOfPoint(route[i]))
               /\ CellOfPoint(route[i]) \in FreeCells
        /\ \A c \in FreeCells :
               StepsIn(FreeCells \ {c}, StartCell, GoalCell) < 0 => OnRoute(c)
        /\ (level = GateField => OnRoute(<<3, 5>>))

C3_Witness ==
    /\ ShortestDone
    /\ level = GateField
    /\ StartCell = <<0, 0>> /\ GoalCell = <<9, 9>>
    /\ OnRoute(<<3, 5>>)
    /\ \A cx \in (0..9) \ {3} : <<cx, 5>> \in pf.blocked

(***************************************************************************)
(* Claims on PathFinder.longest_approx                                     *)
(***************************************************************************)
\* C4: when the grid has a free cell, the returned route has at least as many
\* steps as the eccentricity of the (possibly substituted) start cell.
C4_LongestAtLeastEccentricity ==
    (LongestDone /\ FreeCells # {}) =>
        Len(route) - 1 >= Eccentricity(LongestStart(pf, call.start_px))

\* a blocked start was substituted and the second sweep beat the first
C4_Witness ==
    /\ LongestDone
    /\ FreeCells # {}
    /\ StartCell \in pf.blocked
    /\ Eccentricity(LongestStart(pf, call.start_px)) >= 2
    /\ Len(route) - 1 > Eccentricity(LongestStart(pf, call.start_px))

\* C5: on a grid whose every cell is blocked, longest_approx returns an empty route.
C5_AllBlockedGivesEmpty ==
    (LongestDone /\ FreeCells = {}) => route = <<>>

(***************************************************************************)
(* Player and MoveRecorder                                                 *)
(*                                                                         *)
(* Positions are whole pixels and a direction (dx, dy) is held in          *)
(* thousandths.  The levels below start the player with its centre on a    *)
(* cell centre, so every route is parallel to an axis and every square     *)
(* root, quotient and step taken here is exact.                            *)
(***************************************************************************)
PLAYER_W == 28
PLAYER_H == 28
PLAYER_SPEED == 5
SAMPLE_DIST == 8
UNIT == 1000

Sign(v) == IF v > 0 THEN 1 ELSE IF v < 0 THEN -1 ELSE 0

\* math.hypot on whole pixels: the integer part of the root
hypot(vx, vy) ==
    LET n == vx * vx + vy * vy
    IN  CHOOSE r \in 0..(Abs(vx) + Abs(vy)) : r * r <= n /\ n < (r + 1) * (r + 1)

\* v / d in thousandths
Ratio(v, d) == Sign(v) * ((UNIT * Abs(v)) \div d)

\* (player.x + player.w*0.5, player.y + player.h*0.5)
center(pl) == <<pl.x + PLAYER_W \div 2, pl.y + PLAYER_H \div 2>>

\* pygame.Rect.colliderect: the interiors overlap
colliderect(a, b) ==
    a.left < b.right /\ b.left < a.right /\ a.top < b.bottom /\ b.top < a.bottom

\* Player.move with dt_scale 1.0 in Reality.NORMAL: the step is taken unless the
\* player's rectangle would overlap a wall
move(pl, d, walls) ==
    LET nx == pl.x + Sign(d[1]) * ((Abs(d[1]) * PLAYER_SPEED) \div UNIT)
        ny == pl.y + Sign(d[2]) * ((Abs(d[2]) * PLAYER_SPEED) \div UNIT)
        fut == Rect(nx, ny, PLAYER_W, PLAYER_H)
    IN  IF \A w \in walls : ~colliderect(fut, w)
        THEN [pl |-> [x |-> nx, y |-> ny], moved |-> TRUE]
        ELSE [pl |-> pl, moved |-> FALSE]

Dist2(a, b) == (a[1] - b[1]) * (a[1] - b[1]) + (a[2] - b[2]) * (a[2] - b[2])

\* clear that leaves the samples where they are
clear_nothing(rec) == rec

\* MoveRecorder.clear
clear(rec) == [points |-> <<>>, last |-> <<>>]

\* add with the comparison made against the oldest stored sample rather than the last
add_from_oldest(rec, pos, max_points) ==
    IF rec.points = <<>>
    THEN [points |-> <<pos>>, last |-> pos]
    ELSE IF Dist2(pos, rec.points[1]) >= SAMPLE_DIST * SAMPLE_DIST
         THEN LET ps == Append(rec.points, pos)
              IN  [points |-> IF Len(ps) > max_points
                              THEN SubSeq(ps, Len(ps) - max_points + 1, Len(ps))
                              ELSE ps,
                   last |-> pos]
         ELSE rec

\* add with the truncation keeping the oldest max_points samples
add_keeps_oldest(rec, pos, max_points) ==
    IF rec.points = <<>>
    THEN [points |-> <<pos>>, last |-> pos]
    ELSE IF Dist2(pos, rec.last) >= SAMPLE_DIST * SAMPLE_DIST
         THEN LET ps == Append(rec.points, pos)
              IN  [points |-> IF Len(ps) > max_points
                              THEN SubSeq(ps, 1, max_points)
                              ELSE ps,
                   last |-> pos]
         ELSE rec

\* add with the spacing test strict: a position exactly sample_dist away is left out
add_at_strict(rec, pos, max_points, sd) ==
    IF rec.points = <<>>
    THEN [points |-> <<pos>>, last |-> pos]
    ELSE IF Dist2(pos, rec.last) > sd * sd
         THEN LET ps == Append(rec.points, pos)
              IN  [points |-> IF Len(ps) > max_points
                              THEN SubSeq(ps, Len(ps) - max_points + 1, Len(ps))
                              ELSE ps,
                   last |-> pos]
         ELSE rec

\* MoveRecorder.add of a recorder built with sample_dist sd and max_points: the first
\* position always, a later one only at sample_dist or more from the last sample;
\* once the count passes max_points the list is cut to its last max_points entries
add_at(rec, pos, max_points, sd) ==
    IF rec.points = <<>>
    THEN [points |-> <<pos>>, last |-> pos]
    ELSE IF Dist2(pos, rec.last) >= sd * sd
         THEN LET ps == Append(rec.points, pos)
              IN  [points |-> IF Len(ps) > max_points
                              THEN SubSeq(ps, Len(ps) - max_points + 1, Len(ps))
                              ELSE ps,
                   last |-> pos]
         ELSE rec

\* MoveRecorder.add of a recorder built with the default sample_dist
add_with(rec, pos, max_points) == add_at(rec, pos, max_points, SAMPLE_DIST)

\* MoveRecorder.add of the game's recorder
add(rec, pos) == add_with(rec, pos, MaxPoints)

\* backtrack_from with the last of the nearest samples chosen on a tie
backtrack_from_last_nearest(rec, cur, include_current) ==
    IF rec.points = <<>> THEN <<>>
    ELSE LET n == Len(rec.points)
             d2(i) == Dist2(rec.points[i], cur)
             best == CHOOSE i \in 1..n :
                         /\ \A j \in 1..n : d2(i) <= d2(j)
                         /\ \A j \in (i + 1)..n : d2(j) > d2(i)
             back == SubSeq(rec.points, 1, best)
             back2 == IF include_current
                      THEN [back EXCEPT ![best] = cur]
                      ELSE back
         IN  Reverse(back2)

\* MoveRecorder.backtrack_from: the samples up to the first one nearest to cur, the
\* nearest replaced by cur when include_current, in reverse
backtrack_from(rec, cur, include_current) ==
    IF rec.points = <<>> THEN <<>>
    ELSE LET n == Len(rec.points)
             d2(i) == Dist2(rec.points[i], cur)
             best == CHOOSE i \in 1..n :
                         /\ \A j \in 1..n : d2(i) <= d2(j)
                         /\ \A j \in 1..(i - 1) : d2(j) > d2(i)
             back == SubSeq(rec.points, 1, best)
             back2 == IF include_current
                      THEN [back EXCEPT ![best] = cur]
                      ELSE back
         IN  Reverse(back2)

\* the call with back bound to self.points itself and cut in place: the
\* replacement of the last entry and the reversal then act on the stored list
backtrack_call_in_place(rec, cur, include_current) ==
    [points |-> backtrack_from(rec, cur, include_current), last |-> rec.last,
     back |-> backtrack_from(rec, cur, include_current)]

\* a call of backtrack_from: self.points and self._last as the call leaves them, and
\* the list it returns; back is the slice points[:best_i + 1], a new list, and the
\* call assigns to back[-1] and reverses back only
backtrack_call(rec, cur, include_current) ==
    [points |-> rec.points, last |-> rec.last,
     back |-> backtrack_from(rec, cur, include_current)]

(***************************************************************************)
(* Levels the game is run on                                               *)
(***************************************************************************)
\* Level.generate: the border blocks; neither world has room for inner blocks
BorderWalls(ww, wh) ==
    {Rect(x * CELL_SIZE, 0, CELL_SIZE, CELL_SIZE) : x \in 0..((ww - 1) \div CELL_SIZE)}
    \cup {Rect(x * CELL_SIZE, wh - CELL_SIZE, CELL_SIZE, CELL_SIZE) :
              x \in 0..((ww - 1) \div CELL_SIZE)}
    \cup {Rect(0, y * CELL_SIZE, CELL_SIZE, CELL_SIZE) : y \in 0..((wh - 1) \div CELL_SIZE)}
    \cup {Rect(ww - CELL_SIZE, y * CELL_SIZE, CELL_SIZE, CELL_SIZE) :
              y \in 0..((wh - 1) \div CELL_SIZE)}

\* a corridor of three free cells; the end lies in the last one
Corridor ==
    [world_w |-> 5 * CELL_SIZE, world_h |-> 3 * CELL_SIZE,
     walls |-> BorderWalls(5 * CELL_SIZE, 3 * CELL_SIZE),
     start |-> <<46, 46>>, end |-> <<159, 79>>]

\* a single free cell; the end lies in a border block
Closet ==
    [world_w |-> 3 * CELL_SIZE, world_h |-> 3 * CELL_SIZE,
     walls |-> BorderWalls(3 * CELL_SIZE, 3 * CELL_SIZE),
     start |-> <<46, 46>>, end |-> <<119, 119>>]

Levels == <<Corridor, Closet>>

\* _level_obj(current_index)
lvl == Levels[current_index + 1]

\* the player's centre as start_level leaves it: Player(*lvl.start)
StartCentre == center([x |-> lvl.start[1], y |-> lvl.start[2]])

(***************************************************************************)
(* The autopilot session and its handlers                                  *)
(***************************************************************************)
Session ==
    [auto_mode |-> auto_mode, reverse_mode |-> reverse_mode, auto_path |-> auto_path,
     auto_index |-> auto_index, auto_type |-> auto_type]

Install(s) ==
    /\ auto_mode' = s.auto_mode
    /\ reverse_mode' = s.reverse_mode
    /\ auto_path' = s.auto_path
    /\ auto_index' = s.auto_index
    /\ auto_type' = s.auto_type

\* the route _auto_select plans for key
planned(lv, pl, key) ==
    IF key = "short"
    THEN shortest(PathFinder(lv), center(pl), lv.end)
    ELSE longest_approx(PathFinder(lv), center(pl))

auto_select_keeps_flag(s, key, path) ==
    IF Len(path) >= 2
    THEN [s EXCEPT !.auto_mode = TRUE, !.auto_path = path, !.auto_index = 1,
                   !.auto_type = IF key = "short" THEN "short" ELSE "long"]
    ELSE [s EXCEPT !.auto_type = IF key = "short" THEN "short" ELSE "long"]

\* _auto_select: the kind is written first, the rest only for a route of two
\* waypoints or more
auto_select(s, key, path) ==
    LET t == [s EXCEPT !.auto_type = IF key = "short" THEN "short" ELSE "long"]
    IN  IF Len(path) >= 2
        THEN [t EXCEPT !.reverse_mode = FALSE, !.auto_mode = TRUE,
                       !.auto_path = path, !.auto_index = 1]
        ELSE t

\* _reverse_moves
reverse_moves(s, path) ==
    IF Len(path) >= 2
    THEN [auto_mode |-> TRUE, reverse_mode |-> TRUE, auto_path |-> path,
          auto_index |-> 1, auto_type |-> "reverse"]
    ELSE s

\* the keys that cancel a route, and the keys update moves the player by
CancelKeys == {"K_a", "K_d", "K_w", "K_s", "K_LEFT", "K_RIGHT", "K_UP", "K_DOWN"}

cancel_arrows_only(s, st, ks) ==
    IF s.auto_mode /\ st = "PLAYING" /\ ks \cap {"K_LEFT", "K_RIGHT", "K_UP", "K_DOWN"} # {}
    THEN [s EXCEPT !.auto_mode = FALSE, !.reverse_mode = FALSE]
    ELSE s

\* the end of handle_events: a movement key held while a route is followed
cancel(s, st, ks) ==
    IF s.auto_mode /\ st = "PLAYING" /\ ks \cap CancelKeys # {}
    THEN [s EXCEPT !.auto_mode = FALSE, !.reverse_mode = FALSE]
    ELSE s

ArriveDist == Max2(8, (CELL_SIZE * 2) \div 10)

Arrive_stays_on(s) == [s EXCEPT !.auto_index = s.auto_index + 1]

\* arrival that drops the waypoint reached from the route
Arrive_consumes(s) == [s EXCEPT !.auto_path = Tail(s.auto_path)]

\* arrival that ends the route only once the cursor has passed the length
Arrive_late(s) ==
    LET i == s.auto_index + 1
    IN  IF i > Len(s.auto_path)
        THEN [s EXCEPT !.auto_index = i, !.auto_mode = FALSE, !.reverse_mode = FALSE]
        ELSE [s EXCEPT !.auto_index = i]

\* update: the target is within reach
Arrive(s) ==
    LET i == s.auto_index + 1
    IN  IF i >= Len(s.auto_path)
        THEN [s EXCEPT !.auto_index = i, !.auto_mode = FALSE, !.reverse_mode = FALSE]
        ELSE [s EXCEPT !.auto_index = i]

\* the unit vector from c to t, in thousandths
Toward(t, c) ==
    LET vx == t[1] - c[1]
        vy == t[2] - c[2]
        d == hypot(vx, vy)
    IN  IF d # 0 THEN <<Ratio(vx, d), Ratio(vy, d)>> ELSE <<UNIT * vx, UNIT * vy>>

\* following with no arrival test: the target is steered at for ever
Follow_never_arrives(s, c) ==
    [s |-> s, steer |-> Toward(s.auto_path[s.auto_index + 1], c), branch |-> "follow"]

Follow_steers_on_arrival(s, c) ==
    LET t == s.auto_path[s.auto_index + 1]
    IN  IF hypot(t[1] - c[1], t[2] - c[2]) < ArriveDist
        THEN LET a == Arrive(s)
             IN  [s |-> a,
                  steer |-> IF a.auto_mode THEN Toward(a.auto_path[a.auto_index + 1], c)
                            ELSE <<0, 0>>,
                  branch |-> IF a.auto_mode THEN "arrive" ELSE "finish"]
        ELSE [s |-> s, steer |-> Toward(t, c), branch |-> "follow"]

\* update, AUTO FOLLOW: on arrival the index moves on and dx, dy stay 0.0;
\* otherwise dx, dy point at the target
Follow(s, c) ==
    LET t == s.auto_path[s.auto_index + 1]
    IN  IF hypot(t[1] - c[1], t[2] - c[2]) < ArriveDist
        THEN LET a == Arrive(s)
             IN  [s |-> a, steer |-> <<0, 0>>,
                  branch |-> IF a.auto_mode THEN "arrive" ELSE "finish"]
        ELSE [s |-> s, steer |-> Toward(t, c), branch |-> "follow"]

\* update, MANUAL: the held keys, a diagonal scaled by 1/sqrt(2)
Manual(ks) ==
    LET dx == (IF ks \cap {"K_RIGHT", "K_d"} # {} THEN 1 ELSE 0)
              - (IF ks \cap {"K_LEFT", "K_a"} # {} THEN 1 ELSE 0)
        dy == (IF ks \cap {"K_DOWN", "K_s"} # {} THEN 1 ELSE 0)
              - (IF ks \cap {"K_UP", "K_w"} # {} THEN 1 ELSE 0)
        inv == hypot(UNIT, UNIT) \div 2
    IN  IF dx # 0 /\ dy # 0 THEN <<dx * inv, dy * inv>> ELSE <<dx * UNIT, dy * UNIT>>

(***************************************************************************)
(* The game loop: run() calls handle_events, update and draw in turn.      *)
(* handle_events is its event loop (one step per KEYDOWN), then the bars   *)
(* and the dropdown (one click at most), then the cancel check.            *)
(***************************************************************************)
\* what a frame may hold down: nothing, the letter key or the arrow key for "right"
KeySets == {{}, {"K_d"}, {"K_RIGHT"}}

InitGame ==
    /\ Constructed
    /\ level = Levels[1]
    /\ pf = PathFinder(level)
    /\ call = NoCall
    /\ pc = "idle"
    /\ astar = NoAStar
    /\ pushed = <<>>
    /\ bfs = NoBfs
    /\ route = <<>>

\* dx, dy, moved and the branch taken are locals of update
NoUpdate == steer' = <<0, 0>> /\ branch' = "none" /\ moved' = FALSE

\* start_level(idx)
start_level(idx) ==
    LET i == Max2(0, Min2(Len(Levels) - 1, idx))
        pl == [x |-> Levels[i + 1].start[1], y |-> Levels[i + 1].start[2]]
    IN  /\ current_index' = i
        /\ player' = pl
        /\ state' = "PLAYING"
        /\ Install([auto_mode |-> FALSE, reverse_mode |-> FALSE, auto_path |-> <<>>,
                    auto_index |-> 0, auto_type |-> "None"])
        /\ moves' = add(clear(moves), center(pl))
        /\ arrivals' = 0
        /\ origin' = "None"
        /\ strayed' = FALSE
        /\ req' = NoReq

\* a route request: s is the session the handler leaves
Request(kind, path, s) ==
    /\ Install(s)
    /\ req' = [kind |-> kind, path |-> path, before |-> Session]
    /\ arrivals' = IF Len(path) >= 2 THEN 0 ELSE arrivals
    /\ origin' = IF Len(path) >= 2 THEN kind ELSE origin
    /\ strayed' = strayed

\* the menu panels (new game, continue, level select) start a level
MenuStart ==
    /\ frame = "events" /\ state = "MENU"
    /\ \E idx \in 0..(Len(Levels) - 1) : start_level(idx)
    /\ NoUpdate
    /\ UNCHANGED <<pathVars, recVars, dropdown_open, frame, keys>>

\* _panel_message: the cross of the pause, game over and level complete panels
PanelCross ==
    /\ frame = "events" /\ state \in {"GAME_OVER", "LEVEL_COMPLETE", "PAUSED"}
    /\ state' = "PLAYING"
    /\ req' = NoReq
    /\ NoUpdate
    /\ UNCHANGED <<pathVars, recVars, current_index, player, moves, dropdown_open, sessionVars,
                   frame, keys, arrivals, origin, strayed>>

\* KEYDOWN K_ESCAPE
KeyEscape ==
    /\ frame = "events" /\ state \in {"PLAYING", "PAUSED"}
    /\ state' = IF state = "PLAYING" THEN "PAUSED" ELSE "PLAYING"
    /\ req' = NoReq
    /\ NoUpdate
    /\ UNCHANGED <<pathVars, recVars, current_index, player, moves, dropdown_open, sessionVars,
                   frame, keys, arrivals, origin, strayed>>

\* KEYDOWN K_a
KeyAuto ==
    /\ frame = "events" /\ state = "PLAYING"
    /\ dropdown_open' = TRUE
    /\ req' = NoReq
    /\ NoUpdate
    /\ UNCHANGED <<pathVars, recVars, state, current_index, player, moves, sessionVars,
                   frame, keys, arrivals, origin, strayed>>

\* KEYDOWN K_r
KeyReverse ==
    /\ frame = "events" /\ state = "PLAYING"
    /\ LET path == backtrack_from(moves, center(player), TRUE)
       IN  Request("reverse", path, reverse_moves(Session, path))
    /\ NoUpdate
    /\ UNCHANGED <<pathVars, recVars, state, current_index, player, moves, dropdown_open,
                   frame, keys>>

\* KEYDOWN K_SPACE
KeySpace ==
    /\ frame = "events" /\ state \in {"GAME_OVER", "LEVEL_COMPLETE"}
    /\ start_level(IF state = "LEVEL_COMPLETE" THEN current_index + 1 ELSE current_index)
    /\ NoUpdate
    /\ UNCHANGED <<pathVars, recVars, dropdown_open, frame, keys>>

BarsShown == state \in {"PLAYING", "PAUSED", "GAME_OVER", "LEVEL_COMPLETE"}

\* the event loop is over; the bars and the dropdown take the click, if any
ToCancel == frame = "events" /\ frame' = "cancel" /\ NoUpdate /\ UNCHANGED <<pathVars, recVars, keys>>

NoClick ==
    /\ ToCancel
    /\ req' = NoReq
    /\ UNCHANGED <<state, current_index, player, moves, dropdown_open, sessionVars,
                   arrivals, origin, strayed>>

\* the AUTO button of the bottom bar, or the header of the dropdown
ClickAuto ==
    /\ ToCancel /\ BarsShown
    /\ dropdown_open' = ~dropdown_open
    /\ req' = NoReq
    /\ UNCHANGED <<state, current_index, player, moves, sessionVars, arrivals, origin, strayed>>

\* the close icon lies inside the header: the header toggles, the icon then closes
ClickClose ==
    /\ ToCancel /\ BarsShown
    /\ dropdown_open' = FALSE
    /\ req' = NoReq
    /\ UNCHANGED <<state, current_index, player, moves, sessionVars, arrivals, origin, strayed>>

\* an item of the open dropdown: on_select is _auto_select
ClickItem ==
    /\ ToCancel /\ BarsShown /\ dropdown_open
    /\ \E key \in {"short", "long"} :
           LET path == planned(lvl, player, key)
           IN  Request(key, path, auto_select(Session, key, path))
    /\ dropdown_open' = FALSE
    /\ UNCHANGED <<state, current_index, player, moves>>

\* the REVERSE button
ClickReverse ==
    /\ ToCancel /\ BarsShown
    /\ LET path == backtrack_from(moves, center(player), TRUE)
       IN  Request("reverse", path, reverse_moves(Session, path))
    /\ UNCHANGED <<state, current_index, player, moves, dropdown_open>>

\* the PAUSE/RESUME button
ClickPause ==
    /\ ToCancel /\ BarsShown
    /\ state' = IF state = "PLAYING" THEN "PAUSED" ELSE "PLAYING"
    /\ req' = NoReq
    /\ UNCHANGED <<current_index, player, moves, dropdown_open, sessionVars, arrivals, origin, strayed>>

\* the last lines of handle_events: keys are read, a movement key ends the route
CancelCheck ==
    /\ frame = "cancel" /\ frame' = "update"
    /\ \E ks \in KeySets :
           /\ keys' = ks
           /\ Install(cancel(Session, state, ks))
           /\ req' = IF cancel(Session, state, ks) # Session
                     THEN [kind |-> "cancel", path |-> <<>>, before |-> Session]
                     ELSE NoReq
    /\ NoUpdate
    /\ UNCHANGED <<pathVars, recVars, state, current_index, player, moves, dropdown_open, arrivals, origin, strayed>>

\* update while PLAYING; over: the time is up or the health is gone
Update ==
    /\ frame = "update" /\ frame' = "events"
    /\ state = "PLAYING" /\ player # NoPlayer
    /\ \E over \in BOOLEAN :
       \E f \in {IF auto_mode /\ Len(auto_path) >= 2 /\ auto_index < Len(auto_path)
                 THEN Follow(Session, center(player))
                 ELSE [s |-> Session, steer |-> Manual(keys), branch |-> "manual"]} :
       \E m \in {move(player, f.steer, lvl.walls)} :
       \E done \in {colliderect(Rect(m.pl.x, m.pl.y, PLAYER_W, PLAYER_H),
                                Rect(lvl.end[1] - 20, lvl.end[2] - 20, 40, 40))} :
               /\ player' = m.pl
               /\ moves' = IF m.moved THEN add(moves, center(m.pl)) ELSE moves
               /\ state' = IF done THEN "LEVEL_COMPLETE"
                           ELSE IF over THEN "GAME_OVER" ELSE state
               /\ Install(IF over \/ done
                          THEN [f.s EXCEPT !.auto_mode = FALSE, !.reverse_mode = FALSE]
                          ELSE f.s)
               /\ steer' = f.steer
               /\ branch' = f.branch
               /\ moved' = m.moved
               /\ strayed' = (strayed \/ Dist2(center(m.pl), StartCentre) >= SAMPLE_DIST * SAMPLE_DIST)
               /\ arrivals' = IF f.branch \in {"arrive", "finish"}
                              THEN arrivals + 1 ELSE arrivals
    /\ keys' = {}
    /\ req' = NoReq
    /\ UNCHANGED <<pathVars, recVars, current_index, dropdown_open, origin>>

\* update in any other state does nothing to the game
UpdateSkip ==
    /\ frame = "update" /\ frame' = "events"
    /\ ~(state = "PLAYING" /\ player # NoPlayer)
    /\ keys' = {}
    /\ req' = NoReq
    /\ NoUpdate
    /\ UNCHANGED <<pathVars, recVars, state, current_index, player, moves, dropdown_open,
                   sessionVars, arrivals, origin, strayed>>

NextGame ==
    \/ MenuStart
    \/ PanelCross
    \/ KeyEscape
    \/ KeyAuto
    \/ KeyReverse
    \/ KeySpace
    \/ NoClick
    \/ ClickAuto
    \/ ClickClose
    \/ ClickItem
    \/ ClickReverse
    \/ ClickPause
    \/ CancelCheck
    \/ Update
    \/ UpdateSkip

SpecGame == InitGame /\ [][NextGame]_vars

(***************************************************************************)
(* Claims on the autopilot session                                         *)
(***************************************************************************)
RouteKinds == {"short", "long", "reverse"}

\* a route request has just been handled, and its route had n waypoints
Failed == req.kind \in RouteKinds /\ Len(req.path) < 2
Accepted == req.kind \in RouteKinds /\ Len(req.path) >= 2

\* the keys update's manual branch moves the player by
MovementKeys == {"K_LEFT", "K_a", "K_RIGHT", "K_d", "K_UP", "K_w", "K_DOWN", "K_s"}

\* C6: a route request (shortest, longest or retrace) that yields fewer than 2
\* waypoints leaves the session as it was: mode, route, cursor and kind tag.
C6_FailedRequestChangesNothing ==
    Failed => Session = req.before

\* C7: a route request that yields 2 or more waypoints leaves the session following
\* exactly that route, cursor at 1, kind tag the requested kind, retrace flag set
\* only for a retrace, whatever the session was before.
C7_RequestReplacesSession ==
    Accepted =>
        /\ auto_mode
        /\ auto_path = req.path
        /\ auto_index = 1
        /\ auto_type = req.kind
        /\ reverse_mode <=> (req.kind = "reverse")

\* a planned route takes over from a retrace that was being followed
C7_Witness ==
    /\ Accepted
    /\ req.kind = "short"
    /\ req.before.auto_mode /\ req.before.reverse_mode
    /\ req.before.auto_path # auto_path
    /\ auto_mode /\ ~reverse_mode

\* C8: a route of n >= 2 waypoints starts with the cursor at 1, the cursor goes up
\* by exactly 1 at each arrival, and the session goes idle by arrival after
\* exactly n - 1 arrivals, not before.
C8_CursorCountsArrivals ==
    /\ Accepted => auto_index = 1 /\ arrivals = 0
    /\ auto_path # <<>> => auto_index = 1 + arrivals
    /\ auto_mode => arrivals < Len(auto_path) - 1
    /\ branch = "finish" => ~auto_mode /\ arrivals = Len(auto_path) - 1

\* a route of three waypoints has been followed to its end
C8_Witness ==
    /\ branch = "finish"
    /\ Len(auto_path) = 3
    /\ arrivals = 2 /\ auto_index = 3
    /\ ~auto_mode

\* C9: in a frame whose movement is computed with a movement key held, the session
\* is idle and the retrace flag clear before update runs, and update steers by the
\* keys, not by the route.
C9_ManualInputCancels ==
    [][(frame = "update" /\ state = "PLAYING" /\ keys \cap MovementKeys # {}) =>
           /\ ~auto_mode /\ ~reverse_mode
           /\ branch' = "manual"
           /\ steer' = Manual(keys)]_vars

\* a retrace was being followed when the key was found held
C9_Witness ==
    /\ frame = "update" /\ state = "PLAYING"
    /\ keys \cap MovementKeys # {}
    /\ req.kind = "cancel"
    /\ req.before.auto_mode /\ req.before.reverse_mode
    /\ ~auto_mode /\ ~reverse_mode

MaxCap == 3      \* largest max_points a recorder is built with
MaxCalls == 4    \* add and clear calls made on one recorder

\* positions fed to the recorder: 8 apart exactly, less than 8 apart ((0,0) and
\* (5,6), (0,0) and (4,0)), and (4,0) and (8,0) each as near to two others
RecPoints == {<<0, 0>>, <<8, 0>>, <<16, 0>>, <<5, 6>>, <<4, 0>>}

\* MoveRecorder.__init__
InitRec ==
    /\ GameIdle
    /\ level = Levels[1]
    /\ pf = PathFinder(level)
    /\ call = NoCall
    /\ pc = "idle"
    /\ astar = NoAStar
    /\ pushed = <<>>
    /\ bfs = NoBfs
    /\ route = <<>>
    /\ cap \in 1..MaxCap
    /\ sample_dist = SAMPLE_DIST
    /\ heading = <<0, 0>>
    /\ recorder = NoMoves
    /\ accepted = <<>>
    /\ calls = 0
    /\ bt = NoBack

\* the test add makes before it appends
Accepts(rec, pos) ==
    \/ rec.points = <<>>
    \/ Dist2(pos, rec.last) >= SAMPLE_DIST * SAMPLE_DIST

\* moves.add(pos)
RecAdd ==
    /\ calls < MaxCalls
    /\ \E pos \in RecPoints :
           /\ recorder' = add_with(recorder, pos, cap)
           /\ accepted' = IF Accepts(recorder, pos) THEN Append(accepted, pos) ELSE accepted
    /\ calls' = calls + 1
    /\ UNCHANGED <<pathVars, gameVars, cap, sample_dist, heading, bt>>

\* moves.clear()
RecClear ==
    /\ calls < MaxCalls
    /\ recorder' = clear(recorder)
    /\ accepted' = <<>>
    /\ calls' = calls + 1
    /\ UNCHANGED <<pathVars, gameVars, cap, sample_dist, heading, bt>>

\* moves.backtrack_from(cur, include_current): the list it returns is a new one
RecBacktrack ==
    /\ \E cur \in RecPoints, inc \in BOOLEAN :
       \E r \in {backtrack_call(recorder, cur, inc)} :
           /\ bt' = [history |-> recorder.points, cur |-> cur, include_current |-> inc,
                     result |-> r.back]
           /\ recorder' = [points |-> r.points, last |-> r.last]
    /\ UNCHANGED <<pathVars, gameVars, cap, sample_dist, heading, accepted, calls>>

NextRec == RecAdd \/ RecClear \/ RecBacktrack

SpecRec == InitRec /\ [][NextRec]_vars

\* C11: after any sequence of add and clear calls, any two consecutive stored
\* samples are at least sample_dist apart (squared distance at least sample_dist
\* squared), also once the list has been cut to max_points.
C11_SamplesSpaced ==
    \A i \in 1..(Len(recorder.points) - 1) :
        Dist2(recorder.points[i], recorder.points[i + 1]) >= SAMPLE_DIST * SAMPLE_DIST

\* samples were dropped by the cut and two or more are stored
C11_Witness ==
    /\ Len(accepted) > cap
    /\ Len(recorder.points) >= 2
    /\ Len(recorder.points) = cap

\* the last n entries of a sequence
LastN(seq, n) == SubSeq(seq, Len(seq) - n + 1, Len(seq))

Nearest(ps, p) ==
    LET least == CHOOSE d \in {Dist2(ps[i], p) : i \in 1..Len(ps)} :
                     \A j \in 1..Len(ps) : d <= Dist2(ps[j], p)
        at == {i \in 1..Len(ps) : Dist2(ps[i], p) = least}
    IN  CHOOSE i \in at : \A j \in at : i <= j

\* C13: for a non-empty history and any position p, the reverse of
\* backtrack_from(p, True) is the prefix of the history that ends at the sample
\* nearest to p (the lowest index among the nearest), with that last element
\* replaced by p and no other; with include_current False it is that prefix.
C13_BacktrackIsPrefix ==
    bt.history # <<>> =>
        LET k == Nearest(bt.history, bt.cur)
            prefix == SubSeq(bt.history, 1, k)
        IN  Reverse(bt.result) = IF bt.include_current
                                 THEN [prefix EXCEPT ![k] = bt.cur]
                                 ELSE prefix

\* two stored samples are equally near to a position that is neither of them, and
\* the one taken by backtrack_from(p, True) is not the last stored
C13_Witness ==
    /\ bt.include_current
    /\ Len(bt.history) >= 2
    /\ \E i, j \in 1..Len(bt.history) :
           /\ i < j
           /\ Dist2(bt.history[i], bt.cur) = Dist2(bt.history[j], bt.cur)
           /\ \A m \in 1..Len(bt.history) :
                  Dist2(bt.history[m], bt.cur) >= Dist2(bt.history[i], bt.cur)
           /\ Dist2(bt.history[i], bt.cur) > 0
           /\ Len(bt.result) = i

(***************************************************************************)
(* PathFinder.__init__ on its own: a level is given, the grid is built.    *)
(***************************************************************************)
\* world sizes, multiples of CELL_SIZE and not (world_w = int(SCREEN_WIDTH * scale))
WorldSizes == {<<80, 80>>, <<120, 80>>, <<100, 90>>, <<130, 125>>}

\* walls of positive width and height: blocks on the cell lines as generate lays
\* them, the border block of a world 100 wide and 90 high, a block half outside
\* the world, a wall inside one cell, walls across a cell line, a wall one pixel thin
WallPool ==
    {Rect(0, 0, CELL_SIZE, CELL_SIZE), Rect(40, 40, CELL_SIZE, CELL_SIZE),
     Rect(80, 0, CELL_SIZE, CELL_SIZE), Rect(60, 50, CELL_SIZE, CELL_SIZE),
     Rect(-20, -20, CELL_SIZE, CELL_SIZE), Rect(100, 100, CELL_SIZE, CELL_SIZE),
     Rect(10, 50, 10, 10), Rect(30, 0, 20, 40), Rect(39, 39, 1, 1),
     Rect(0, 79, 120, 1), Rect(40, 80, 1, 45)}

GridLevels ==
    {[world_w |-> sz[1], world_h |-> sz[2], walls |-> W] :
        sz \in WorldSizes, W \in {V \in SUBSET WallPool : Cardinality(V) <= MaxWalls}}

NoGrid == [cols |-> 0, rows |-> 0, blocked |-> {}]

InitGrid ==
    /\ Constructed
    /\ level \in GridLevels
    /\ pf = NoGrid
    /\ call = NoCall
    /\ pc = "level"
    /\ astar = NoAStar
    /\ pushed = <<>>
    /\ bfs = NoBfs
    /\ route = <<>>

\* PathFinder(level)
Build ==
    /\ pc = "level"
    /\ pf' = PathFinder(level)
    /\ pc' = "built"
    /\ UNCHANGED <<level, call, astar, pushed, bfs, route, gameVars, recVars>>

NextGrid == Build

SpecGrid == InitGrid /\ [][NextGrid]_vars

\* the pixel square of cell c and wall w share a region of positive area
Overlaps(c, w) ==
    /\ Max2(w.left, c[1] * CELL_SIZE) < Min2(w.right, (c[1] + 1) * CELL_SIZE)
    /\ Max2(w.top, c[2] * CELL_SIZE) < Min2(w.bottom, (c[2] + 1) * CELL_SIZE)

C17_CeilGrid ==
    pc = "built" =>
        /\ (pf.cols - 1) * CELL_SIZE < level.world_w /\ level.world_w <= pf.cols * CELL_SIZE
        /\ (pf.rows - 1) * CELL_SIZE < level.world_h /\ level.world_h <= pf.rows * CELL_SIZE

\* C17, amended: the grid has floor(world_w / CELL_SIZE) columns and
\* floor(world_h / CELL_SIZE) rows; what is left over of a world that is not a
\* multiple of the cell size has no cells, and a point there is taken to the last
\* full column or row.
C17_FloorGrid ==
    pc = "built" =>
        /\ pf.cols * CELL_SIZE <= level.world_w /\ level.world_w < (pf.cols + 1) * CELL_SIZE
        /\ pf.rows * CELL_SIZE <= level.world_h /\ level.world_h < (pf.rows + 1) * CELL_SIZE
        /\ \A x \in (pf.cols * CELL_SIZE)..(level.world_w - 1), y \in 0..(level.world_h - 1) :
               pt_to_cell(pf, <<x, y>>)[1] = pf.cols - 1
        /\ \A x \in 0..(level.world_w - 1), y \in (pf.rows * CELL_SIZE)..(level.world_h - 1) :
               pt_to_cell(pf, <<x, y>>)[2] = pf.rows - 1

\* a grid built for a world that is no multiple of the cell size either way
C17_Witness ==
    /\ pc = "built"
    /\ level.world_w % CELL_SIZE # 0
    /\ level.world_h % CELL_SIZE # 0
    /\ pf.cols >= 2 /\ pf.rows >= 2

\* a level is started: start_level leaves no route and one sample, the player's centre
LevelStarts ==
    /\ state \in {"MENU", "GAME_OVER", "LEVEL_COMPLETE"}
    /\ state' = "PLAYING"
    /\ auto_path' = <<>>
    /\ moves'.points = <<center(player')>>

\* C15: the waypoint sequence of the autopilot changes only by a request whose
\* route has two waypoints or more, or by the start of a level; a tick leaves it as
\* it is and moves the cursor by one at most, the cancel check changes the flags
\* only, and a sample added to the recorder (also one that drops the oldest)
\* leaves a retrace route as it was built.
C15_RouteIsFrozen ==
    [][/\ auto_path' # auto_path => (Accepted' /\ auto_path' = req'.path) \/ LevelStarts
       /\ frame = "update" =>
              /\ auto_path' = auto_path
              /\ auto_type' = auto_type
              /\ auto_index' \in {auto_index, auto_index + 1}
       /\ frame = "cancel" =>
              /\ auto_path' = auto_path
              /\ auto_type' = auto_type
              /\ auto_index' = auto_index
       /\ moves' # moves => auto_path' = auto_path \/ LevelStarts]_vars

\* a retrace route is followed whose oldest waypoint the recorder has since dropped
C15_Witness ==
    /\ auto_mode /\ reverse_mode /\ auto_type = "reverse"
    /\ branch = "follow"
    /\ Len(moves.points) = MaxPoints
    /\ \A i \in 1..Len(moves.points) : moves.points[i] # auto_path[Len(auto_path)]

\* the game played from the menu with the route requests and the movement keys
\* alone: no pause, no restart, and the dropdown opened by its key only
NextFollow ==
    \/ MenuStart
    \/ KeyAuto
    \/ KeyReverse
    \/ NoClick
    \/ ClickItem
    \/ CancelCheck
    \/ Update
    \/ UpdateSkip

\* run(): every call of handle_events and of update returns, so the loop goes on
\* to its next step: out of the event loop, through the cancel check, through update
SpecFollow ==
    /\ InitGame /\ [][NextFollow]_vars
    /\ WF_vars(NoClick)
    /\ WF_vars(CancelCheck)
    /\ WF_vars(Update \/ UpdateSkip)

\* update takes the AUTO FOLLOW branch
Following == auto_mode /\ Len(auto_path) >= 2 /\ auto_index < Len(auto_path)

\* the game is in play, no movement key is held, no other route is asked for, and
\* a step toward the target is taken, not refused by a wall
HandsOff ==
    /\ state = "PLAYING"
    /\ keys \cap MovementKeys = {}
    /\ req.kind \notin RouteKinds
    /\ branch = "follow" => moved

FirstCost(came, c) == Len(Chain(came, c)) - 1

\* C18: in shortest a cell's predecessor is fixed at the first pop of the cell and
\* never changes; a later pop of the cell carries a cost no lower than the first,
\* changes no recorded cost and adds no frontier entry; the search stops at the pop
\* that finalises the goal.
C18_FinalisedAtFirstPop ==
    [][(pc = "astar" /\ astar' # astar) =>
           LET e == HeapMin(astar.pq)
               cur == e[3]
           IN  /\ ~astar.brk
               /\ astar'.pq \cap {e} = {}
               /\ \A c \in DOMAIN astar.came :
                      c \in DOMAIN astar'.came /\ astar'.came[c] = astar.came[c]
               /\ cur \notin DOMAIN astar.came =>
                      /\ astar'.came[cur] = e[4]
                      /\ FirstCost(astar'.came, cur) = e[2]
               /\ cur \in DOMAIN astar.came =>
                      /\ e[2] >= FirstCost(astar.came, cur)
                      /\ astar'.gscore = astar.gscore
                      /\ astar'.pq = astar.pq \ {e}
               /\ astar'.brk <=> cur = GoalCell]_vars

\* the search has stopped at the pop of the goal with entries left on the frontier,
\* the goal three steps or more from the start
C18_Witness ==
    /\ pc = "astar" /\ astar.brk
    /\ astar.pq # {}
    /\ GoalCell \in DOMAIN astar.came
    /\ FirstCost(astar.came, GoalCell) >= 3

\* the place of entry e in the order of the heappush calls
PushedAt(e) == CHOOSE k \in 1..Len(pushed) : pushed[k] = e

\* C19, as stated: the frontier is popped in ascending order of (f, d), and of the
\* entries tied on both the one pushed first (earlier in the neighbour order +col,
\* -col, +row, -row) is popped first.
C19_TiesByPushOrder ==
    [][(pc = "astar" /\ astar' # astar) =>
           LET e == HeapMin(astar.pq)
           IN  \A o \in astar.pq \ {e} :
                   \/ e[1] < o[1]
                   \/ e[1] = o[1] /\ e[2] < o[2]
                   \/ e[1] = o[1] /\ e[2] = o[2] /\ PushedAt(e) < PushedAt(o)]_vars

\* C19, amended: the frontier is popped in ascending order of (f, d, col, row): of
\* the entries tied on f and d the one with the lowest column is popped first, and
\* of those in one column the one with the lowest row, whatever the order they
\* were pushed in.
C19_TiesByCell ==
    [][(pc = "astar" /\ astar' # astar) =>
           \E e \in astar.pq :
               /\ e \notin astar'.pq
               /\ e[3] \in DOMAIN astar'.came
               /\ \A o \in astar.pq \ {e} :
                      \/ e[1] < o[1]
                      \/ e[1] = o[1] /\ e[2] < o[2]
                      \/ e[1] = o[1] /\ e[2] = o[2] /\ e[3][1] < o[3][1]
                      \/ e[1] = o[1] /\ e[2] = o[2] /\ e[3][1] = o[3][1] /\ e[3][2] < o[3][2]]_vars

\* the entry about to be popped is tied on f and d with one pushed before it
C19_Witness ==
    /\ pc = "astar" /\ astar.pq # {} /\ ~astar.brk
    /\ \E o \in astar.pq :
           /\ o[1] = HeapMin(astar.pq)[1] /\ o[2] = HeapMin(astar.pq)[2]
           /\ PushedAt(o) < PushedAt(HeapMin(astar.pq))

\* the calls on the grids of six cells at most
InitPathSmall ==
    /\ InitPath
    /\ level.world_w * level.world_h <= 6 * CELL_SIZE * CELL_SIZE

\* a call of shortest or longest_approx runs on: each iteration of its loops ends
SpecPathLive == InitPathSmall /\ [][NextPath]_vars /\ WF_vars(NextPath)

\* how often cell c has been pushed
PushCount(c) == Cardinality({k \in 1..Len(pushed) : pushed[k][3] = c})

\* C20: shortest and longest_approx return on every grid and from every point; with
\* the goal out of reach shortest ends when the frontier is empty, and no cell is
\* pushed more than a bounded number of times (once per neighbour at most, each
\* time at a lower cost).
C20_Terminates ==
    /\ <>(pc = "done")
    /\ [](\A c \in GridCells : PushCount(c) <= Len(NeighborOrder(c)))
    /\ [](\A j, k \in 1..Len(pushed) :
             (j < k /\ pushed[j][3] = pushed[k][3]) => pushed[k][2] < pushed[j][2])

\* shortest has returned with the frontier exhausted and the goal not found, after
\* three pushes or more
C20_Witness ==
    /\ ShortestDone
    /\ astar.pq = {} /\ ~astar.brk
    /\ GoalCell \notin DOMAIN astar.came
    /\ Len(pushed) >= 3
    /\ route = <<>>

(***************************************************************************)
(* Claims on the two sweeps of longest_approx                              *)
(***************************************************************************)
\* the cells at the largest breadth-first distance from a
Farthest(a) ==
    UNION {{c \in FreeCells : Steps(a, c) = e} : e \in {Eccentricity(a)}}

\* of the cells of F, the one a traversal met first
FirstIn(order, F) ==
    order[CHOOSE i \in 1..Len(order) :
              /\ order[i] \in F
              /\ \A j \in 1..(i - 1) : order[j] \notin F]

\* C21: the route of longest_approx starts at A and ends at B, A the cell at the
\* largest breadth-first distance from the (possibly substituted) start cell and B
\* the cell at the largest distance from A; of several cells at the largest
\* distance each sweep takes the one its traversal discovered first.
C21_EndsAreFirstFarthest ==
    [][(FreeCells # {} /\ pc \in {"sweep1", "sweep2"} /\ pc' # pc) =>
           \E F \in {Farthest(bfs.order[1])} :
               /\ pc = "sweep1" =>
                      /\ bfs.order[1] = LongestStart(pf, call.start_px)
                      /\ bfs'.order[1] = FirstIn(bfs.order, F)
               /\ pc = "sweep2" =>
                      /\ route'[1] = Centre(bfs.order[1])
                      /\ route'[Len(route')] = Centre(FirstIn(bfs.order, F))]_vars

\* the second sweep met three cells or more at the largest distance, and the route
\* ends at the first of them, which is neither the last of them nor the one with
\* the greatest coordinates
C21_Witness ==
    /\ LongestDone
    /\ FreeCells # {}
    /\ Cardinality(Farthest(bfs.order[1])) >= 3
    /\ \E i, j \in 1..Len(bfs.order) :
           /\ i < j
           /\ route[Len(route)] = Centre(bfs.order[i])
           /\ bfs.order[j] \in Farthest(bfs.order[1])
    /\ \E c \in Farthest(bfs.order[1]) : CellLess(CellOfPoint(route[Len(route)]), c)
    /\ route[1] # Centre(LongestStart(pf, call.start_px))

\* C22: with the start point in a blocked cell and a free cell in the grid, the
\* first sweep of longest_approx runs from the free cell of the lowest row and, in
\* that row, of the lowest column; a free start cell is used as it is.
C22_SubstituteIsFirstInRowOrder ==
    (pc = "sweep1" /\ FreeCells # {}) =>
        /\ StartCell \notin pf.blocked => bfs.order[1] = StartCell
        /\ StartCell \in pf.blocked =>
               /\ bfs.order[1] \in FreeCells
               /\ \A o \in FreeCells \ {bfs.order[1]} :
                      \/ bfs.order[1][2] < o[2]
                      \/ bfs.order[1][2] = o[2] /\ bfs.order[1][1] < o[1]

\* the start cell is blocked and the cell taken for it lies to the right of a free
\* cell of a later row
C22_Witness ==
    /\ pc = "sweep1"
    /\ StartCell \in pf.blocked
    /\ bfs.order[1] \in FreeCells
    /\ \E o \in FreeCells : o[1] < bfs.order[1][1] /\ o[2] > bfs.order[1][2]

(***************************************************************************)
(* A MoveRecorder fed the points of a line, one unit apart                 *)
(***************************************************************************)
\* max_points of a recorder built with the default
MAX_POINTS == 20000

\* the length of the longest line fed
MaxLine == 100

\* the sample_dist values the recorder is built with
SampleDists == {1, 2, 3, 5, 8, 13}

\* the lines: along either axis, either way
Headings == {<<1, 0>>, <<0, 1>>, <<-1, 0>>, <<0, -1>>}

\* the point k units along the line
OnLine(k) == <<k * heading[1], k * heading[2]>>

InitLine ==
    /\ GameIdle
    /\ level = Levels[1]
    /\ pf = PathFinder(level)
    /\ call = NoCall
    /\ pc = "idle"
    /\ astar = NoAStar
    /\ pushed = <<>>
    /\ bfs = NoBfs
    /\ route = <<>>
    /\ cap = MAX_POINTS
    /\ sample_dist \in SampleDists
    /\ heading \in Headings
    /\ recorder = NoMoves
    /\ accepted = <<>>
    /\ calls = 0
    /\ bt = NoBack

\* moves.add of the next point of the line
LineAdd ==
    /\ calls <= MaxLine
    /\ recorder' = add_at(recorder, OnLine(calls), cap, sample_dist)
    /\ accepted' = IF recorder' # recorder THEN Append(accepted, OnLine(calls)) ELSE accepted
    /\ calls' = calls + 1
    /\ UNCHANGED <<pathVars, gameVars, cap, sample_dist, heading, bt>>

NextLine == LineAdd

SpecLine == InitLine /\ [][NextLine]_vars

\* C23: an empty recorder built with sample_dist s and fed the points 0, 1, ..., L of
\* a line one unit apart (capacity not reached) holds exactly the points at the
\* multiples of s up to L, floor(L / s) + 1 samples; with s = 8 and L = 100 these
\* are the 13 samples 0, 8, ..., 96.
C23_LineIsSampledAtMultiples ==
    calls >= 1 =>
        LET L == calls - 1
        IN  /\ Len(recorder.points) = (L \div sample_dist) + 1
            /\ \A i \in 1..Len(recorder.points) :
                   recorder.points[i] = OnLine((i - 1) * sample_dist)
            /\ (sample_dist = 8 /\ L = 100) =>
                   /\ Len(recorder.points) = 13
                   /\ recorder.points[13] = OnLine(96)

\* the line of length 100 has been fed to a recorder with sample_dist 8
C23_Witness ==
    /\ sample_dist = 8
    /\ calls = 101
    /\ Len(recorder.points) = 13
    /\ recorder.last = OnLine(96)
    /\ Len(recorder.points) < cap

(***************************************************************************)
(* Claims on the autopilot session in every state of the game              *)
(***************************************************************************)
\* C24: whenever the autopilot is following (auto_mode true) the stored route has
\* two waypoints or more and the cursor satisfies 1 <= auto_index < len(auto_path),
\* so auto_path[auto_index] is in range.
C24_CursorInRange ==
    auto_mode =>
        /\ Len(auto_path) >= 2
        /\ 1 <= auto_index
        /\ auto_index < Len(auto_path)

\* the route is still followed after an arrival has moved the cursor onto its last
\* waypoint
C24_Witness ==
    /\ auto_mode
    /\ branch = "arrive"
    /\ Len(auto_path) >= 3
    /\ auto_index = Len(auto_path) - 1

\* C25: whenever the autopilot is following, the kind tag names the route being
\* followed: auto_type is "reverse" exactly when reverse_mode is true and auto_path
\* came from the recorder, "short" or "long" exactly when auto_path came from that
\* planner call; and reverse_mode is never true while auto_mode is false.
C25_TagNamesRoute ==
    /\ auto_mode =>
           /\ auto_type = "reverse" <=> (reverse_mode /\ origin = "reverse")
           /\ auto_type = "short" <=> origin = "short"
           /\ auto_type = "long" <=> origin = "long"
    /\ reverse_mode => auto_mode

\* C26: whenever the game state is GAME_OVER or LEVEL_COMPLETE the autopilot is idle,
\* auto_mode and reverse_mode both false: no bottom-bar, dropdown or key action
\* leaves a route being followed once the level has ended.
C26_IdleOnceLevelEnded ==
    state \in {"GAME_OVER", "LEVEL_COMPLETE"} => (~auto_mode /\ ~reverse_mode)

C28_LevelStartsClean ==
    [][/\ (MenuStart \/ KeySpace) =>
              /\ ~auto_mode' /\ ~reverse_mode'
              /\ auto_path' = <<>>
              /\ auto_index' = 0
              /\ auto_type' = "None"
              /\ center(player') = StartCentre'
              /\ moves'.points = <<StartCentre'>>
              /\ moves'.last = StartCentre'
       /\ (player' # NoPlayer /\ ~strayed') => moves'.points = <<StartCentre'>>
       /\ (req'.kind = "reverse" /\ ~strayed') =>
              /\ Len(req'.path) < 2
              /\ Session' = Session]_vars

\* the second level was started, the player has moved less than sample_dist since,
\* and the retrace then asked for was refused
C28_Witness ==
    /\ req.kind = "reverse"
    /\ ~strayed
    /\ center(player) # StartCentre
    /\ Len(req.path) = 1
    /\ Len(moves.points) = 1
    /\ current_index = 1
    /\ ~auto_mode /\ auto_path = <<>> /\ auto_type = "None"

====
